---- MODULE Spec2Model ----
(***************************************************************************)
(* Model of the UOOM optimization service                                  *)
(* (apps/optimization-service/main.py): the request validator, the         *)
(* /optimize endpoint, ConstraintOptimizer.optimize_routing with the CP    *)
(* model it builds in self.model, the solve with self.solver, the result   *)
(* extraction and the fallback assignment.                                 *)
(*                                                                         *)
(* Numbers.  Locations are kilometre marks along one meridian, where the   *)
(* haversine distance of two points is the absolute difference of their    *)
(* marks.  Weights are held in hundredths (0.5 is 50), so that the score   *)
(* int(weighted_score * 100) is exact integer arithmetic.  Floating-point  *)
(* rounding error is not modelled: where the exact product is a whole      *)
(* number the float product may lie just below it, and int() then returns  *)
(* one less than the model does.                                           *)
(***************************************************************************)
EXTENDS Integers, Sequences, FiniteSets, TLC

VARIABLES
    pc,                     \* per call: where the call stands
    request,                \* per call: the parsed request body
    assignments,            \* per call: optimize_routing's dict (order id, channel id) -> variable index
    status,                 \* per call: the local `status` returned by self.solver.Solve
    http,                   \* per call: HTTP status code sent (0: none yet)
    response,               \* per call: the OptimizationResponse returned (NoResponse: none)
    self_model,             \* optimizer.model, the field shared by all calls
    self_solver,            \* optimizer.solver, the field shared by all calls
    optimization_requests,  \* Counter optimization_requests_total
    optimization_success,   \* Counter optimization_success_total
    optimization_errors     \* Counter optimization_errors_total

vars == <<pc, request, assignments, status, http, response, self_model, self_solver,
          optimization_requests, optimization_success, optimization_errors>>

-----------------------------------------------------------------------------
(* Bounds of the model *)

MaxOrders == 2
MaxChannels == 2

FbMaxOrders == 2
FbMaxChannels == 3

-----------------------------------------------------------------------------
(* Small helpers *)

Abs(n) == IF n < 0 THEN 0 - n ELSE n

Range(s) == {s[i] : i \in 1..Len(s)}

SeqsUpTo(S, n) == UNION {[1..k -> S] : k \in 0..n}

RECURSIVE SumSet(_, _)
\* the sum of f[e] over the elements e of the finite set S
SumSet(S, f) ==
    IF S = {} THEN 0
    ELSE LET e == CHOOSE e \in S : TRUE IN f[e] + SumSet(S \ {e}, f)

-----------------------------------------------------------------------------
(* Geometry and scoring: _calculate_distance, _calculate_delivery_time,     *)
(* _calculate_assignment_score                                              *)

haversine_distance(p, q) == Abs(p - q)

_calculate_distance(order, channel) ==
    haversine_distance(channel.location, order.pickup_location)
    + haversine_distance(order.pickup_location, order.delivery_location)

\* prep_time + (distance / 30.0) * 60
_calculate_delivery_time(order, channel) ==
    channel.prep_time_minutes + 2 * _calculate_distance(order, channel)

WeightKeys == {"delivery_time", "cost", "quality"}

\* weights['delivery_time'], weights['cost'], weights['quality'] raise KeyError
\* when the key is absent
ScoreRaises(weights) == ~ (WeightKeys \subseteq DOMAIN weights)

\* int(weighted_score * 100): int() truncates, and every term is >= 0.
\* With weights in hundredths, weighted_score * 100 =
\*   (delivery_time*w_t + cost*w_c + quality_penalty*w_q) * (11 - priority) / 10
_calculate_assignment_score(order, channel, weights) ==
    LET delivery_time == _calculate_delivery_time(order, channel)
        cost == channel.cost_per_order
        quality_penalty == IF 100 - channel.quality_score > 0
                           THEN 100 - channel.quality_score ELSE 0
        weighted == delivery_time * weights["delivery_time"]
                    + cost * weights["cost"]
                    + quality_penalty * weights["quality"]
    IN (weighted * (11 - order.priority)) \div 10

-----------------------------------------------------------------------------
(* The CP model and the solver (ortools cp_model.CpModel / CpSolver), as   *)
(* far as optimize_routing uses them.  A model is a number of Boolean      *)
(* variables, named by their index 1..nvars in creation order, a set of    *)
(* linear constraints over variable indices and an objective.  A variable  *)
(* handle held by a call is the index alone.                               *)

\* cp_model.CpModel()
CpModel == [nvars |-> 0, cons |-> {}, objective |-> <<>>]

\* cp_model.CpSolver(): no Solve yet, no solution
CpSolver == [solved |-> FALSE, solution |-> <<>>]

\* sum of the variables of `terms` (a sequence of indices, repeats counted) under x
RECURSIVE SumTerms(_, _)
SumTerms(terms, x) ==
    IF terms = <<>> THEN 0 ELSE x[Head(terms)] + SumTerms(Tail(terms), x)

\* sum of coef * variable over the objective terms under x
RECURSIVE ObjectiveValue(_, _)
ObjectiveValue(objective, x) ==
    IF objective = <<>> THEN 0
    ELSE Head(objective).coef * x[Head(objective).var]
         + ObjectiveValue(Tail(objective), x)

Holds(con, x) ==
    IF con.op = "eq" THEN SumTerms(con.terms, x) = con.rhs
                     ELSE SumTerms(con.terms, x) <= con.rhs

\* every index a constraint or the objective names is a variable of the model
ModelValid(model) ==
    /\ \A con \in model.cons : \A k \in 1..Len(con.terms) : con.terms[k] \in 1..model.nvars
    /\ \A k \in 1..Len(model.objective) : model.objective[k].var \in 1..model.nvars

FeasibleSolutions(model) ==
    {x \in [1..model.nvars -> {0, 1}] : \A con \in model.cons : Holds(con, x)}

OptimalSolutions(model) ==
    LET F == FeasibleSolutions(model)
        cost == [x \in F |-> ObjectiveValue(model.objective, x)]
    IN {x \in F : \A y \in F : cost[x] <= cost[y]}

\* What CpSolver.Solve(model) may return within its time limit: a proven
\* optimum, a feasible solution not proven optimal, UNKNOWN when the limit
\* ends the search with nothing found, INFEASIBLE when nothing exists, and
\* MODEL_INVALID for a model that names a variable it does not have.
SolveOutcomes(model) ==
    IF ~ ModelValid(model)
    THEN {[status |-> "MODEL_INVALID", solution |-> <<>>]}
    ELSE LET F == FeasibleSolutions(model)
         IN {[status |-> "OPTIMAL", solution |-> x] : x \in OptimalSolutions(model)}
            \cup {[status |-> "FEASIBLE", solution |-> x] : x \in F}
            \cup {[status |-> "UNKNOWN", solution |-> <<>>]}
            \cup (IF F = {} THEN {[status |-> "INFEASIBLE", solution |-> <<>>]} ELSE {})

\* CpSolver.Value(var) raises when Solve was not called on the solver or the
\* solution it holds has no such index
ValueRaises(solver, idx) == ~ solver.solved \/ idx \notin 1..Len(solver.solution)

Value(solver, idx) == solver.solution[idx]

\* str(status): the solver's raw status code
StatusStr(st) ==
    CASE st = "UNKNOWN" -> "0"
      [] st = "MODEL_INVALID" -> "1"
      [] st = "FEASIBLE" -> "2"
      [] st = "INFEASIBLE" -> "3"
      [] st = "OPTIMAL" -> "4"

-----------------------------------------------------------------------------
(* ConstraintOptimizer.optimize_routing, step by step *)

\* d[k] = v on a Python dict
Put(d, k, v) == [x \in DOMAIN d \cup {k} |-> IF x = k THEN v ELSE d[x]]

Max(S) == CHOOSE m \in S : \A n \in S : n <= m

\* Lines 125-130: one NewBoolVar per (order, channel) position, in loop order,
\* on a model that already holds `base` variables; the dict keeps, for each
\* (order id, channel id) key, the variable created last.
NewVarIndex(orders, channels, base, i, j) == base + (i - 1) * Len(channels) + j

DecisionVariables(orders, channels, base) ==
    [key \in {<<orders[i].id, channels[j].id>> : i \in 1..Len(orders), j \in 1..Len(channels)}
        |-> Max({NewVarIndex(orders, channels, base, i, j) :
                    i \in {i \in 1..Len(orders) : orders[i].id = key[1]},
                    j \in {j \in 1..Len(channels) : channels[j].id = key[2]}})]

\* Mutant of _add_assignment_constraints: "at most one channel" (<= 1)
_add_assignment_constraints_AtMostOne(orders, channels, asg) ==
    {[terms |-> [j \in 1..Len(channels) |-> asg[<<orders[i].id, channels[j].id>>]],
      op |-> "le", rhs |-> 1] : i \in 1..Len(orders)}

\* Each order assigned to exactly one channel
_add_assignment_constraints(orders, channels, asg) ==
    {[terms |-> [j \in 1..Len(channels) |-> asg[<<orders[i].id, channels[j].id>>]],
      op |-> "eq", rhs |-> 1] : i \in 1..Len(orders)}

\* Mutant of _add_capacity_constraints: the bound is capacity, current_load forgotten
_add_capacity_constraints_NoLoad(orders, channels, asg) ==
    {[terms |-> [i \in 1..Len(orders) |-> asg[<<orders[i].id, channels[j].id>>]],
      op |-> "le", rhs |-> channels[j].capacity] : j \in 1..Len(channels)}

\* Channel capacity constraints
_add_capacity_constraints(orders, channels, asg) ==
    {[terms |-> [i \in 1..Len(orders) |-> asg[<<orders[i].id, channels[j].id>>]],
      op |-> "le", rhs |-> channels[j].capacity - channels[j].current_load]
        : j \in 1..Len(channels)}

\* Delivery time constraints
_add_delivery_time_constraints(orders, channels, asg) ==
    {[terms |-> <<asg[<<orders[p[1]].id, channels[p[2]].id>>]>>, op |-> "eq", rhs |-> 0]
        : p \in {q \in (1..Len(orders)) \X (1..Len(channels)) :
                    _calculate_delivery_time(orders[q[1]], channels[q[2]])
                        > orders[q[1]].max_delivery_time}}

\* Distance constraints
_add_distance_constraints(orders, channels, asg) ==
    {[terms |-> <<asg[<<orders[p[1]].id, channels[p[2]].id>>]>>, op |-> "eq", rhs |-> 0]
        : p \in {q \in (1..Len(orders)) \X (1..Len(channels)) :
                    _calculate_distance(orders[q[1]], channels[q[2]])
                        > channels[q[2]].max_distance}}

\* Lines 139-145: the objective terms, in loop order
ObjectiveTerms(orders, channels, asg, weights) ==
    [k \in 1..(Len(orders) * Len(channels)) |->
        LET i == ((k - 1) \div Len(channels)) + 1
            j == ((k - 1) % Len(channels)) + 1
        IN [var |-> asg[<<orders[i].id, channels[j].id>>],
            coef |-> _calculate_assignment_score(orders[i], channels[j], weights)]]

\* Lines 133-145 applied to the model that self.model holds
BuildModel(model, orders, channels, asg, weights) ==
    [nvars |-> model.nvars,
     cons |-> model.cons
              \cup _add_assignment_constraints(orders, channels, asg)
              \cup _add_capacity_constraints(orders, channels, asg)
              \cup _add_delivery_time_constraints(orders, channels, asg)
              \cup _add_distance_constraints(orders, channels, asg),
     objective |-> ObjectiveTerms(orders, channels, asg, weights)]

\* Lines 155-159: some self.solver.Value(...) of the read-back loop raises
ExtractRaises(orders, channels, asg, solver) ==
    \E key \in DOMAIN asg : ValueRaises(solver, asg[key])

\* Lines 152-159: assignments_result; a later (order, channel) position whose
\* variable is set overwrites an earlier entry of the same order id
AssignmentsResult(orders, channels, asg, solver) ==
    LET Set(i, j) == Value(solver, asg[<<orders[i].id, channels[j].id>>]) = 1
        Ids == {orders[i].id : i \in {i \in 1..Len(orders) :
                                        \E j \in 1..Len(channels) : Set(i, j)}}
    IN [oid \in Ids |->
            LET i == Max({i \in 1..Len(orders) :
                            orders[i].id = oid /\ \E j \in 1..Len(channels) : Set(i, j)})
                j == Max({j \in 1..Len(channels) : Set(i, j)})
            IN channels[j].id]

\* Mutant of TotalScore: the sum brought back to real units (divided by 100)
TotalScore_RealUnits(orders, channels, asg, solver, weights) ==
    LET P == (1..Len(orders)) \X (1..Len(channels))
    IN SumSet(P, [p \in P |->
            IF Value(solver, asg[<<orders[p[1]].id, channels[p[2]].id>>]) = 1
            THEN _calculate_assignment_score(orders[p[1]], channels[p[2]], weights)
            ELSE 0]) \div 100

\* Lines 153-159: total_score, the integer scores of the set positions added up
TotalScore(orders, channels, asg, solver, weights) ==
    LET P == (1..Len(orders)) \X (1..Len(channels))
    IN SumSet(P, [p \in P |->
            IF Value(solver, asg[<<orders[p[1]].id, channels[p[2]].id>>]) = 1
            THEN _calculate_assignment_score(orders[p[1]], channels[p[2]], weights)
            ELSE 0])

\* Line 171
ResponseStatus(st) == IF st = "OPTIMAL" THEN "OPTIMAL" ELSE "FEASIBLE"

\* Mutant of SolutionFound: only OPTIMAL is read back
SolutionFound_OptimalOnly(st) == st = "OPTIMAL"

\* Line 151: the branch that reads the solution back
SolutionFound(st) == st \in {"OPTIMAL", "FEASIBLE"}

\* Lines 167-177
SuccessResponse(orders, channels, asg, solver, weights, st) ==
    [assignments |-> AssignmentsResult(orders, channels, asg, solver),
     total_score |-> TotalScore(orders, channels, asg, solver, weights),
     status |-> ResponseStatus(st),
     metadata |-> [solver_status |-> StatusStr(st),
                   orders_count |-> Len(orders),
                   channels_count |-> Len(channels)]]

-----------------------------------------------------------------------------
(* ConstraintOptimizer._fallback_assignment *)

\* Line 277: {channel['id']: channel['current_load'] for channel in channels}
InitialLoads(channels) ==
    [cid \in {channels[j].id : j \in 1..Len(channels)} |->
        channels[Max({j \in 1..Len(channels) : channels[j].id = cid})].current_load]

\* Lines 280-290 for one order, on the running state st = [assignments, channel_loads]
FallbackStep(st, order, channels) ==
    LET Free == {j \in 1..Len(channels) :
                    st.channel_loads[channels[j].id] < channels[j].capacity}
    IN IF Free # {}
       THEN LET j == CHOOSE j \in Free : \A k \in Free : j <= k
            IN [assignments |-> Put(st.assignments, order.id, channels[j].id),
                channel_loads |-> [st.channel_loads EXCEPT ![channels[j].id] = @ + 1]]
       ELSE [assignments |-> Put(st.assignments, order.id, channels[1].id),
             channel_loads |-> st.channel_loads]

\* The state of the loop of line 279 after the first n orders
RECURSIVE FallbackLoop(_, _, _)
FallbackLoop(orders, channels, n) ==
    IF n = 0
    THEN [assignments |-> <<>>, channel_loads |-> InitialLoads(channels)]
    ELSE FallbackStep(FallbackLoop(orders, channels, n - 1), orders[n], channels)

\* Line 297
FallbackMetadata == [fallback_reason |-> "Optimization solver failed"]

\* Lines 292-298
_fallback_assignment(orders, channels) ==
    [assignments |-> FallbackLoop(orders, channels, Len(orders)).assignments,
     total_score |-> 0,
     status |-> "FALLBACK",
     metadata |-> FallbackMetadata]

-----------------------------------------------------------------------------
(* Request validation: the pydantic models Order, Channel and               *)
(* OptimizationRequest.  Nothing else is checked before the endpoint runs.  *)

\* Order: priority ge=1 le=10, max_delivery_time ge=1
OrderFieldsValid(o) ==
    /\ o.priority >= 1 /\ o.priority <= 10
    /\ o.max_delivery_time >= 1

\* Channel: capacity ge=1, current_load ge=0, cost_per_order ge=0,
\* quality_score ge=0 le=100, prep_time_minutes ge=1, max_distance ge=1
ChannelFieldsValid(ch) ==
    /\ ch.capacity >= 1
    /\ ch.current_load >= 0
    /\ ch.cost_per_order >= 0
    /\ ch.quality_score >= 0 /\ ch.quality_score <= 100
    /\ ch.prep_time_minutes >= 1
    /\ ch.max_distance >= 1

\* Mutant of validate_weights: a tolerance of 0.1 instead of 0.01
validate_weights_Tolerance10(v) ==
    LET total == SumSet(DOMAIN v, v) IN ~ (Abs(total - 100) > 10)

\* @validator('weights'): abs(sum(v.values()) - 1.0) > 0.01 raises ValueError
validate_weights(v) ==
    LET total == SumSet(DOMAIN v, v) IN ~ (Abs(total - 100) > 1)

\* line 96 compares floats: with a sum of exactly 0.99 or 1.01 the rounding of
\* sum(v.values()) and of the literal 0.01 decides the comparison, so such a
\* map may be refused although the exact difference is not above 0.01
\* (0.5 + 0.3 + 0.21 is refused)
WeightsOnTolerance(v) ==
    LET total == SumSet(DOMAIN v, v) IN Abs(total - 100) = 1

\* orders and channels: min_items=1
MinItems(list) == Len(list) >= 1

RequestValid(req) ==
    /\ MinItems(req.orders)
    /\ MinItems(req.channels)
    /\ \A i \in 1..Len(req.orders) : OrderFieldsValid(req.orders[i])
    /\ \A j \in 1..Len(req.channels) : ChannelFieldsValid(req.channels[j])
    /\ validate_weights(req.weights)

-----------------------------------------------------------------------------
(* The requests the model draws from *)

OrderIds == {"o1", "o2"}
ChannelIds == {"c1", "c2"}

\* delivery 5 km from the pickup (priority 1) or 20 km from it (priority 4),
\* both with the default deadline of 60 minutes
OrderPool ==
    {[id |-> i, pickup_location |-> 0, delivery_location |-> k[1],
      priority |-> k[2], max_delivery_time |-> 60]
        : i \in OrderIds, k \in {<<5, 1>>, <<20, 4>>}}

\* cost, quality and preparation time as in test_main.py's sample channels
\* (c1 is too slow for a 20 km order, c2 is not); one free slot and 50 km
\* range, two free slots and 10 km range, or loaded beyond capacity
ChannelPool ==
    {[id |-> i, capacity |-> k[1], current_load |-> k[2],
      cost_per_order |-> IF i = "c1" THEN 5 ELSE 3,
      quality_score |-> IF i = "c1" THEN 95 ELSE 88,
      prep_time_minutes |-> IF i = "c1" THEN 25 ELSE 20,
      location |-> 0, max_distance |-> k[3]]
        : i \in ChannelIds,
          k \in {<<2, 1, 50>>, <<2, 0, 10>>, <<1, 2, 50>>}}

\* config.py default_weights / the default of OptimizationRequest.weights
DefaultWeights == [delivery_time |-> 50, cost |-> 30, quality |-> 20]

\* the default triple; sums of 0.9, 1.01 and 1.02; a map without 'quality'
\* whose values sum to 1.0; and the triple 0.46, 0.33, 0.21, whose scores are
\* not all whole numbers before int()
WeightsPool ==
    {[delivery_time |-> 50, cost |-> 30, quality |-> q] : q \in {10, 20, 21, 22}}
    \cup {[delivery_time |-> 50, cost |-> 50]}
    \cup {[delivery_time |-> 46, cost |-> 33, quality |-> 21]}

\* every list of orders and of channels up to the bounds (the empty lists too)
\* under the default weights, and every weights map with the lists of at most
\* one order and one channel
Requests ==
    [orders : SeqsUpTo(OrderPool, MaxOrders),
     channels : SeqsUpTo(ChannelPool, MaxChannels),
     weights : {DefaultWeights}]
    \cup [orders : SeqsUpTo(OrderPool, 1),
          channels : SeqsUpTo(ChannelPool, 1),
          weights : WeightsPool]

-----------------------------------------------------------------------------
(* The service *)

Calls == {"a", "b"}

NoRequest == [orders |-> <<>>, channels |-> <<>>, weights |-> <<>>]
NoResponse == [assignments |-> <<>>, total_score |-> 0, status |-> "NONE", metadata |-> <<>>]

Init ==
    /\ pc = [c \in Calls |-> "idle"]
    /\ request = [c \in Calls |-> NoRequest]
    /\ assignments = [c \in Calls |-> <<>>]
    /\ status = [c \in Calls |-> "NONE"]
    /\ http = [c \in Calls |-> 0]
    /\ response = [c \in Calls |-> NoResponse]
    /\ self_model = CpModel          \* ConstraintOptimizer.__init__
    /\ self_solver = CpSolver
    /\ optimization_requests = 0
    /\ optimization_success = 0
    /\ optimization_errors = 0

\* POST /optimize arrives and its body is parsed
Receive(c, pool) ==
    /\ pc[c] = "idle"
    /\ \E req \in pool : request' = [request EXCEPT ![c] = req]
    /\ pc' = [pc EXCEPT ![c] = "received"]
    /\ UNCHANGED <<assignments, status, http, response, self_model, self_solver,
                   optimization_requests, optimization_success, optimization_errors>>

\* the body fails validation: 422, the endpoint function is not called
Reject(c) ==
    /\ pc[c] = "received"
    /\ (~ RequestValid(request[c]) \/ WeightsOnTolerance(request[c].weights))
    /\ pc' = [pc EXCEPT ![c] = "done"]
    /\ http' = [http EXCEPT ![c] = 422]
    /\ UNCHANGED <<request, assignments, status, response, self_model, self_solver,
                   optimization_requests, optimization_success, optimization_errors>>

\* the endpoint: optimization_requests.inc(), then optimizer.optimize_routing,
\* whose lines 117-119 put a new model and a new solver in the shared fields
Enter(c) ==
    /\ pc[c] = "received"
    /\ RequestValid(request[c])
    /\ optimization_requests' = optimization_requests + 1
    /\ self_model' = CpModel
    /\ self_solver' = CpSolver
    /\ pc' = [pc EXCEPT ![c] = "variables"]
    /\ UNCHANGED <<request, assignments, status, http, response,
                   optimization_success, optimization_errors>>

\* lines 125-130: the decision variables, created in whatever model self.model holds
NewVars(c) ==
    /\ pc[c] = "variables"
    /\ assignments' = [assignments EXCEPT ![c] =
            DecisionVariables(request[c].orders, request[c].channels, self_model.nvars)]
    /\ self_model' = [self_model EXCEPT
            !.nvars = @ + Len(request[c].orders) * Len(request[c].channels)]
    /\ pc' = [pc EXCEPT ![c] = "constraints"]
    /\ UNCHANGED <<request, status, http, response, self_solver,
                   optimization_requests, optimization_success, optimization_errors>>

\* lines 133-145: constraints and objective, added to whatever model self.model holds
AddConstraints(c) ==
    /\ pc[c] = "constraints"
    /\ ~ ScoreRaises(request[c].weights)
    /\ self_model' = BuildModel(self_model, request[c].orders, request[c].channels,
                                assignments[c], request[c].weights)
    /\ pc' = [pc EXCEPT ![c] = "solve"]
    /\ UNCHANGED <<request, assignments, status, http, response, self_solver,
                   optimization_requests, optimization_success, optimization_errors>>

\* Mutant of ExceptHandler: the handler returns the fallback assignment
ExceptHandler_Fallback(c) ==
    /\ optimization_errors' = optimization_errors
    /\ http' = [http EXCEPT ![c] = 200]
    /\ response' = [response EXCEPT ![c] =
            _fallback_assignment(request[c].orders, request[c].channels)]
    /\ pc' = [pc EXCEPT ![c] = "done"]

\* lines 185-188: except Exception: optimization_errors.inc(), HTTPException(500)
ExceptHandler(c) ==
    /\ optimization_errors' = optimization_errors + 1
    /\ http' = [http EXCEPT ![c] = 500]
    /\ response' = response
    /\ pc' = [pc EXCEPT ![c] = "done"]

\* line 142 raises KeyError: the constraints of lines 133-136 are in the model,
\* the objective is not
AddConstraintsRaises(c) ==
    /\ pc[c] = "constraints"
    /\ ScoreRaises(request[c].weights)
    /\ self_model' = [self_model EXCEPT !.cons =
            BuildModel(self_model, request[c].orders, request[c].channels,
                       assignments[c], [k \in WeightKeys |-> 0]).cons]
    /\ ExceptHandler(c)
    /\ UNCHANGED <<request, assignments, status, self_solver,
                   optimization_requests, optimization_success>>

\* line 148: status = self.solver.Solve(self.model)
Solve(c) ==
    /\ pc[c] = "solve"
    /\ \E out \in SolveOutcomes(self_model) :
          /\ status' = [status EXCEPT ![c] = out.status]
          /\ self_solver' = [solved |-> TRUE, solution |-> out.solution]
    /\ pc' = [pc EXCEPT ![c] = "finish"]
    /\ UNCHANGED <<request, assignments, http, response, self_model,
                   optimization_requests, optimization_success, optimization_errors>>

\* lines 151-177: read the solution back from self.solver and return it
ReadBack(c) ==
    /\ pc[c] = "finish"
    /\ SolutionFound(status[c])
    /\ ~ ExtractRaises(request[c].orders, request[c].channels, assignments[c], self_solver)
    /\ optimization_success' = optimization_success + 1
    /\ response' = [response EXCEPT ![c] =
            SuccessResponse(request[c].orders, request[c].channels, assignments[c],
                            self_solver, request[c].weights, status[c])]
    /\ http' = [http EXCEPT ![c] = 200]
    /\ pc' = [pc EXCEPT ![c] = "done"]
    /\ UNCHANGED <<request, assignments, status, self_model, self_solver,
                   optimization_requests, optimization_errors>>

\* line 157 raises: self.solver holds no solution with that variable
ReadBackRaises(c) ==
    /\ pc[c] = "finish"
    /\ SolutionFound(status[c])
    /\ ExtractRaises(request[c].orders, request[c].channels, assignments[c], self_solver)
    /\ ExceptHandler(c)
    /\ UNCHANGED <<request, assignments, status, self_model, self_solver,
                   optimization_requests, optimization_success>>

\* lines 178-183: any other status returns the fallback assignment
Fallback(c) ==
    /\ pc[c] = "finish"
    /\ ~ SolutionFound(status[c])
    /\ response' = [response EXCEPT ![c] =
            _fallback_assignment(request[c].orders, request[c].channels)]
    /\ http' = [http EXCEPT ![c] = 200]
    /\ pc' = [pc EXCEPT ![c] = "done"]
    /\ UNCHANGED <<request, assignments, status, self_model, self_solver,
                   optimization_requests, optimization_success, optimization_errors>>

\* One request, handled from arrival to reply.  The endpoint is an async def
\* without an await, so the event loop runs each call to its end.
Next ==
    \/ Receive("a", Requests)
    \/ Reject("a")
    \/ Enter("a")
    \/ NewVars("a")
    \/ AddConstraints("a")
    \/ AddConstraintsRaises("a")
    \/ Solve("a")
    \/ ReadBack("a")
    \/ Fallback("a")

Spec == Init /\ [][Next]_vars

-----------------------------------------------------------------------------
(* Two calls of optimizer.optimize_routing on the module-level instance     *)
(* whose steps interleave (two threads calling the method): the steps are   *)
(* those of one call, and self.model and self.solver are whatever the last  *)
(* writer left there.                                                       *)

NearOrder(i) == [id |-> i, pickup_location |-> 0, delivery_location |-> 5,
                 priority |-> 1, max_delivery_time |-> 60]
FarOrder(i) == [id |-> i, pickup_location |-> 0, delivery_location |-> 20,
                priority |-> 4, max_delivery_time |-> 60]
SlowChannel == [id |-> "c1", capacity |-> 2, current_load |-> 1, cost_per_order |-> 5,
                quality_score |-> 95, prep_time_minutes |-> 25, location |-> 0,
                max_distance |-> 50]
FastChannel == [id |-> "c2", capacity |-> 2, current_load |-> 0, cost_per_order |-> 3,
                quality_score |-> 88, prep_time_minutes |-> 20, location |-> 0,
                max_distance |-> 50]

\* a request with one feasible pair, one whose only pair is too late, one with
\* two orders, one rejected for its weights and one whose weights lack a key
ThreadRequests ==
    {[orders |-> <<NearOrder("o1")>>, channels |-> <<FastChannel>>, weights |-> DefaultWeights],
     [orders |-> <<FarOrder("o1")>>, channels |-> <<SlowChannel>>, weights |-> DefaultWeights],
     [orders |-> <<NearOrder("o1"), NearOrder("o2")>>, channels |-> <<FastChannel>>,
      weights |-> DefaultWeights],
     [orders |-> <<NearOrder("o1")>>, channels |-> <<FastChannel>>,
      weights |-> [delivery_time |-> 50, cost |-> 30, quality |-> 10]],
     [orders |-> <<NearOrder("o1")>>, channels |-> <<FastChannel>>,
      weights |-> [delivery_time |-> 50, cost |-> 50]]}

NextThreads ==
    \E c \in Calls :
        \/ Receive(c, ThreadRequests)
        \/ Reject(c)
        \/ Enter(c)
        \/ NewVars(c)
        \/ AddConstraints(c)
        \/ AddConstraintsRaises(c)
        \/ Solve(c)
        \/ ReadBack(c)
        \/ ReadBackRaises(c)
        \/ Fallback(c)

SpecThreads == Init /\ [][NextThreads]_vars

-----------------------------------------------------------------------------
(* _fallback_assignment on its own: every list of orders and of channels up *)
(* to the bounds, taken at the point where the solver has returned UNKNOWN  *)
(* (the time limit ended the search) and line 183 is about to run.          *)

FbOrderPool ==
    {[id |-> i, pickup_location |-> 0, delivery_location |-> 5,
      priority |-> 1, max_delivery_time |-> 60] : i \in OrderIds}

\* one free slot, two free slots, or full
FbChannelPool ==
    {[id |-> i, capacity |-> k[1], current_load |-> k[2],
      cost_per_order |-> 3, quality_score |-> 88, prep_time_minutes |-> 20,
      location |-> 0, max_distance |-> 50]
        : i \in ChannelIds, k \in {<<1, 0>>, <<2, 0>>, <<2, 2>>}}

FallbackRequests ==
    [orders : SeqsUpTo(FbOrderPool, FbMaxOrders) \ {<<>>},
     channels : SeqsUpTo(FbChannelPool, FbMaxChannels) \ {<<>>},
     weights : {DefaultWeights}]

InitFallback ==
    /\ pc = [c \in Calls |-> IF c = "a" THEN "finish" ELSE "idle"]
    /\ request \in [Calls -> FallbackRequests \cup {NoRequest}]
    /\ request["a"] \in FallbackRequests
    /\ request["b"] = NoRequest
    /\ assignments = [c \in Calls |->
            IF c = "a"
            THEN DecisionVariables(request[c].orders, request[c].channels, 0)
            ELSE <<>>]
    /\ status = [c \in Calls |-> IF c = "a" THEN "UNKNOWN" ELSE "NONE"]
    /\ http = [c \in Calls |-> 0]
    /\ response = [c \in Calls |-> NoResponse]
    /\ self_model = BuildModel(
            [CpModel EXCEPT !.nvars = Len(request["a"].orders) * Len(request["a"].channels)],
            request["a"].orders, request["a"].channels, assignments["a"],
            request["a"].weights)
    /\ self_solver = [solved |-> TRUE, solution |-> <<>>]
    /\ optimization_requests = 1
    /\ optimization_success = 0
    /\ optimization_errors = 0

NextFallback == Fallback("a")

SpecFallback == InitFallback /\ [][NextFallback]_vars

-----------------------------------------------------------------------------
(* Vocabulary of the claims *)

OrderIdsOf(req) == {req.orders[i].id : i \in 1..Len(req.orders)}
ChannelIdsOf(req) == {req.channels[j].id : j \in 1..Len(req.channels)}

UniqueOrderIds(req) ==
    \A i, k \in 1..Len(req.orders) : req.orders[i].id = req.orders[k].id => i = k
UniqueChannelIds(req) ==
    \A j, k \in 1..Len(req.channels) : req.channels[j].id = req.channels[k].id => j = k

\* non-empty orders and channels, order ids unique, channel ids unique
WellFormed(req) ==
    /\ Len(req.orders) >= 1
    /\ Len(req.channels) >= 1
    /\ UniqueOrderIds(req)
    /\ UniqueChannelIds(req)

\* the feasibility bit of an (order, channel) pair
PairFeasible(o, ch) ==
    /\ _calculate_distance(o, ch) <= ch.max_distance
    /\ _calculate_delivery_time(o, ch) <= o.max_delivery_time

\* the call returned an OptimizationResponse
Returned(c) == pc[c] = "done" /\ http[c] = 200

-----------------------------------------------------------------------------
\* C1: for a well-formed request, every returned Response (OPTIMAL, FEASIBLE or
\* FALLBACK) has an assignments map whose key set is exactly the set of the
\* request's order ids and whose values are ids of channels of the request.
C1_TotalAssignment ==
    \A c \in Calls :
        (Returned(c) /\ WellFormed(request[c])) =>
            /\ DOMAIN response[c].assignments = OrderIdsOf(request[c])
            /\ \A o \in DOMAIN response[c].assignments :
                    response[c].assignments[o] \in ChannelIdsOf(request[c])

\* two orders of a well-formed request, solved, placed on two different channels
C1_Witness ==
    \E c \in Calls :
        /\ Returned(c) /\ WellFormed(request[c])
        /\ Len(request[c].orders) = 2
        /\ response[c].status = "FEASIBLE"
        /\ DOMAIN response[c].assignments = {"o1", "o2"}
        /\ response[c].assignments["o1"] # response[c].assignments["o2"]

\* C2: in a Response with status OPTIMAL or FEASIBLE, every assignment o -> c
\* has route distance <= c.max_distance and estimated delivery time <=
\* o.max_delivery_time, and every channel is given at most
\* capacity - current_load orders.
C2_ConstraintsRespected ==
    \A c \in Calls :
        (Returned(c) /\ response[c].status \in {"OPTIMAL", "FEASIBLE"}) =>
            LET req == request[c]
                asg == response[c].assignments
                On(i, j) == /\ req.orders[i].id \in DOMAIN asg
                            /\ asg[req.orders[i].id] = req.channels[j].id
            IN /\ \A i \in 1..Len(req.orders), j \in 1..Len(req.channels) :
                    On(i, j) =>
                        /\ _calculate_distance(req.orders[i], req.channels[j])
                              <= req.channels[j].max_distance
                        /\ _calculate_delivery_time(req.orders[i], req.channels[j])
                              <= req.orders[i].max_delivery_time
               /\ \A j \in 1..Len(req.channels) :
                    Cardinality({i \in 1..Len(req.orders) : On(i, j)})
                        <= req.channels[j].capacity - req.channels[j].current_load

\* two orders solved to optimality in a request where some (order, channel)
\* pair is infeasible
C2_Witness ==
    \E c \in Calls :
        /\ Returned(c) /\ response[c].status = "OPTIMAL"
        /\ \E i \in 1..Len(request[c].orders), j \in 1..Len(request[c].channels) :
                ~ PairFeasible(request[c].orders[i], request[c].channels[j])
        /\ Len(request[c].orders) = 2

\* "no assignment satisfying the constraints exists": an order unreachable from
\* every channel, or fewer free capacity slots than orders
NoAssignmentExists(req) ==
    \/ \E i \in 1..Len(req.orders) :
          \A j \in 1..Len(req.channels) : ~ PairFeasible(req.orders[i], req.channels[j])
    \/ SumSet(1..Len(req.channels),
              [j \in 1..Len(req.channels) |->
                  req.channels[j].capacity - req.channels[j].current_load])
          < Len(req.orders)

\* C3: once the solver has returned, the call returns a Response whose status
\* is OPTIMAL exactly when the solver returned OPTIMAL, FEASIBLE exactly when
\* it returned FEASIBLE and FALLBACK exactly when it returned anything else;
\* and for a request with no assignment satisfying the constraints the solver
\* returns neither OPTIMAL nor FEASIBLE, so the call ends in a FALLBACK
\* Response, not in an error.
C3_StatusMatchesPath ==
    \A c \in Calls :
        /\ (pc[c] = "done" /\ status[c] # "NONE") =>
              /\ http[c] = 200
              /\ (response[c].status = "OPTIMAL") <=> (status[c] = "OPTIMAL")
              /\ (response[c].status = "FEASIBLE") <=> (status[c] = "FEASIBLE")
              /\ (response[c].status = "FALLBACK")
                    <=> (status[c] \in {"INFEASIBLE", "UNKNOWN", "MODEL_INVALID"})
        /\ (pc[c] \in {"finish", "done"} /\ status[c] # "NONE"
                /\ NoAssignmentExists(request[c])) =>
              status[c] \notin {"OPTIMAL", "FEASIBLE"}

\* the solver proved a well-formed request infeasible and the call returned FALLBACK
C3_Witness ==
    \E c \in Calls :
        /\ Returned(c) /\ WellFormed(request[c])
        /\ status[c] = "INFEASIBLE"
        /\ NoAssignmentExists(request[c])
        /\ response[c].status = "FALLBACK"

-----------------------------------------------------------------------------
\* C7 as stated: when building the model raises inside optimize_routing (the
\* KeyError of a weights map without one of its three keys), the fallback is
\* invoked and the call returns a FALLBACK Response covering every order.
C7_FallbackOnException ==
    \A c \in Calls :
        (pc[c] = "done" /\ RequestValid(request[c]) /\ ScoreRaises(request[c].weights)) =>
            /\ http[c] = 200
            /\ response[c].status = "FALLBACK"
            /\ DOMAIN response[c].assignments = OrderIdsOf(request[c])

\* C7 (amended): when building the model raises inside optimize_routing, the
\* fallback is not invoked: the handler counts one error, no success, and the
\* call ends with HTTP 500 and no Response.
C7_ExceptionIs500 ==
    \A c \in Calls :
        (pc[c] = "done" /\ RequestValid(request[c]) /\ ScoreRaises(request[c].weights)) =>
            /\ http[c] = 500
            /\ response[c] = NoResponse
            /\ optimization_errors = 1
            /\ optimization_success = 0

\* a call that passed validation, raised in line 142 and ended
C7_Witness ==
    \E c \in Calls :
        /\ pc[c] = "done" /\ http[c] = 500
        /\ ScoreRaises(request[c].weights)
        /\ Len(request[c].orders) = 1

WeightSum(req) == SumSet(DOMAIN req.weights, req.weights)

\* the requests C8 is about: weights sum outside [0.99, 1.01], no order, or no channel
C8_Invalid(req) ==
    \/ WeightSum(req) < 99 \/ WeightSum(req) > 101
    \/ Len(req.orders) = 0
    \/ Len(req.channels) = 0

\* C8: a request whose weights sum lies outside [0.99, 1.01], or without
\* orders, or without channels, ends with 422 and never enters the core: the
\* call builds no variables, reaches no solve, the optimizer's model and solver
\* are left as they were and no counter (requests, success, errors) moves.
C8_RejectedBeforeCore ==
    \A c \in Calls :
        (pc[c] # "idle" /\ C8_Invalid(request[c])) =>
            /\ pc[c] \in {"received", "done"}
            /\ pc[c] = "done" => http[c] = 422
            /\ DOMAIN assignments[c] = {}
            /\ status[c] = "NONE"
            /\ self_model = CpModel /\ self_solver = CpSolver
            /\ optimization_requests = 0
            /\ optimization_success = 0
            /\ optimization_errors = 0

\* one order, one channel and weights summing to 1.02: rejected with 422
C8_Witness ==
    \E c \in Calls :
        /\ pc[c] = "done" /\ http[c] = 422
        /\ Len(request[c].orders) = 1 /\ Len(request[c].channels) = 1
        /\ WeightSum(request[c]) = 102

\* the sum of the integer-scaled scores of the (order, channel) pairs of the
\* request that the assignments map asg emits
EmittedScore(req, asg) ==
    LET P == {p \in (1..Len(req.orders)) \X (1..Len(req.channels)) :
                /\ req.orders[p[1]].id \in DOMAIN asg
                /\ asg[req.orders[p[1]].id] = req.channels[p[2]].id}
    IN SumSet(P, [p \in P |->
            _calculate_assignment_score(req.orders[p[1]], req.channels[p[2]], req.weights)])

\* C5 as stated: with status OPTIMAL or FEASIBLE, total_score is the sum of the
\* integer-scaled scores of the emitted assignments divided by 100, that is,
\* 100 * total_score equals that sum.
C5_TotalScoreDividedBy100 ==
    \A c \in Calls :
        (Returned(c) /\ WellFormed(request[c])
            /\ response[c].status \in {"OPTIMAL", "FEASIBLE"}) =>
            100 * response[c].total_score
                = EmittedScore(request[c], response[c].assignments)

\* C5 (amended): with status OPTIMAL or FEASIBLE, total_score is the sum of the
\* integer-scaled scores of the emitted assignments itself; it is not divided
\* by 100.
C5_TotalScoreIsScaledSum ==
    \A c \in Calls :
        (Returned(c) /\ response[c].status \in {"OPTIMAL", "FEASIBLE"}) =>
            response[c].total_score = EmittedScore(request[c], response[c].assignments)

\* two orders solved to optimality with a total_score that is not 0
C5_Witness ==
    \E c \in Calls :
        /\ Returned(c) /\ response[c].status = "OPTIMAL"
        /\ WellFormed(request[c])
        /\ Len(request[c].orders) = 2
        /\ response[c].total_score > 0

\* C6 as stated: the metadata of every Response holds the solver's raw status
\* code as a string, the order count and the channel count, and a FALLBACK
\* Response also holds a fallback_reason and has total_score 0.
C6_MetadataComplete ==
    \A c \in Calls :
        (Returned(c) /\ WellFormed(request[c])) =>
            /\ {"solver_status", "orders_count", "channels_count"}
                  \subseteq DOMAIN response[c].metadata
            /\ response[c].metadata["solver_status"] = StatusStr(status[c])
            /\ response[c].metadata["orders_count"] = Len(request[c].orders)
            /\ response[c].metadata["channels_count"] = Len(request[c].channels)
            /\ response[c].status = "FALLBACK" =>
                  /\ "fallback_reason" \in DOMAIN response[c].metadata
                  /\ response[c].total_score = 0

\* C9 as stated: a request with two orders or two channels of one id, with a
\* channel whose current_load exceeds its capacity, or with a weights map that
\* lacks one of its three keys never gets past validation, so whatever is
\* inside optimize_routing has unique ids, loads within capacity and a
\* complete weights triple.
C9_ValidationComplete ==
    \A c \in Calls :
        (pc[c] \notin {"idle", "received"} /\ http[c] # 422) =>
            /\ UniqueOrderIds(request[c])
            /\ UniqueChannelIds(request[c])
            /\ \A j \in 1..Len(request[c].channels) :
                    request[c].channels[j].current_load <= request[c].channels[j].capacity
            /\ WeightKeys \subseteq DOMAIN request[c].weights

-----------------------------------------------------------------------------
(* The reference of C4, by position: the running load of each channel of   *)
(* the list starts at its current_load; each order goes to the first channel*)
(* of the list whose running load is below its capacity, which then counts  *)
(* one more; with no such channel the order goes to the first channel and   *)
(* no load changes.                                                         *)

RefStep(st, channels) ==
    LET Free == {j \in 1..Len(channels) : st.loads[j] < channels[j].capacity}
    IN IF Free # {}
       THEN LET j == CHOOSE j \in Free : \A k \in Free : j <= k
            IN [chosen |-> Append(st.chosen, j),
                loads |-> [st.loads EXCEPT ![j] = @ + 1]]
       ELSE [chosen |-> Append(st.chosen, 1), loads |-> st.loads]

RECURSIVE RefLoop(_, _, _)
RefLoop(orders, channels, n) ==
    IF n = 0
    THEN [chosen |-> <<>>, loads |-> [j \in 1..Len(channels) |-> channels[j].current_load]]
    ELSE RefStep(RefLoop(orders, channels, n - 1), channels)

\* the reference's result as a map from order id to channel id (for an id
\* that occurs twice, the later order's channel)
RefAssignments(orders, channels) ==
    LET chosen == RefLoop(orders, channels, Len(orders)).chosen
    IN [oid \in {orders[i].id : i \in 1..Len(orders)} |->
            channels[chosen[Max({i \in 1..Len(orders) : orders[i].id = oid})]].id]

\* C4 as stated: for every list of orders and every list of channels, the
\* assignments of the fallback are those of the reference.
C4_FallbackIsReference ==
    \A c \in Calls :
        (Returned(c) /\ response[c].status = "FALLBACK") =>
            response[c].assignments
                = RefAssignments(request[c].orders, request[c].channels)

\* C4 restricted to lists in which no two channels share an id
C4_FallbackIsReferenceUniqueChannels ==
    \A c \in Calls :
        (Returned(c) /\ response[c].status = "FALLBACK" /\ UniqueChannelIds(request[c])) =>
            response[c].assignments
                = RefAssignments(request[c].orders, request[c].channels)

-----------------------------------------------------------------------------
\* what a call with request req may end with when it runs alone on a new
\* optimizer: the HTTP status and the Response
AloneOutcomes(req) ==
    IF ~ RequestValid(req) THEN {[http |-> 422, response |-> NoResponse]}
    ELSE IF ScoreRaises(req.weights) THEN {[http |-> 500, response |-> NoResponse]}
    ELSE LET asg == DecisionVariables(req.orders, req.channels, 0)
             model == BuildModel(
                        [CpModel EXCEPT !.nvars = Len(req.orders) * Len(req.channels)],
                        req.orders, req.channels, asg, req.weights)
         IN {[http |-> 200,
              response |->
                IF SolutionFound(out.status)
                THEN SuccessResponse(req.orders, req.channels, asg,
                                     [solved |-> TRUE, solution |-> out.solution],
                                     req.weights, out.status)
                ELSE _fallback_assignment(req.orders, req.channels)]
                : out \in SolveOutcomes(model)}

\* C10 as stated: whatever the interleaving of two calls on the shared
\* optimizer, the Response of each call is one the call may return when it
\* runs alone.
C10_CallsIsolated ==
    \A c \in Calls :
        Returned(c) =>
            [http |-> 200, response |-> response[c]] \in AloneOutcomes(request[c])

\* Under the event loop, where a call runs to its end before the next starts,
\* no read-back ever raises.
SerialReadBackNeverRaises ==
    \A c \in Calls :
        (pc[c] = "finish" /\ SolutionFound(status[c])) =>
            ~ ExtractRaises(request[c].orders, request[c].channels, assignments[c],
                            self_solver)

-----------------------------------------------------------------------------
\* ten times raw * priority_factor * 100 of an (order, channel) pair, with
\* raw = w_time*eta + w_cost*cost_per_order + w_quality*max(0, 100 - quality_score)
\* and priority_factor = (11 - priority)/10, the weights being in hundredths
ScaledTenths(order, channel, weights) ==
    LET penalty == IF 100 - channel.quality_score > 0
                   THEN 100 - channel.quality_score ELSE 0
    IN (_calculate_delivery_time(order, channel) * weights["delivery_time"]
        + channel.cost_per_order * weights["cost"]
        + penalty * weights["quality"]) * (11 - order.priority)

\* n is an integer nearest to tenths/10 (at a tie, either neighbour)
IsRounded(n, tenths) == Abs(10 * n - tenths) <= 5

\* the call's model is built and is the one self.model holds
ModelBuilt(c) ==
    /\ pc[c] \in {"solve", "finish"}
    /\ Len(self_model.objective) = Len(request[c].orders) * Len(request[c].channels)

\* the (order, channel) positions of the k-th objective term
TermOrder(req, k) == req.orders[((k - 1) \div Len(req.channels)) + 1]
TermChannel(req, k) == req.channels[((k - 1) % Len(req.channels)) + 1]

\* C11 as stated: the integer score of every (order, channel) pair in the
\* objective is raw * priority_factor * 100 rounded to the nearest integer, and
\* so is the total_score of an OPTIMAL or FEASIBLE Response of one order and
\* one channel.
C11_ScoreIsRounded ==
    \A c \in Calls :
        /\ ModelBuilt(c) =>
              \A k \in 1..Len(self_model.objective) :
                  IsRounded(self_model.objective[k].coef,
                            ScaledTenths(TermOrder(request[c], k),
                                         TermChannel(request[c], k),
                                         request[c].weights))
        /\ (Returned(c) /\ response[c].status \in {"OPTIMAL", "FEASIBLE"}
                /\ Len(request[c].orders) = 1 /\ Len(request[c].channels) = 1) =>
              IsRounded(response[c].total_score,
                        ScaledTenths(request[c].orders[1], request[c].channels[1],
                                     request[c].weights))

\* What the code does instead: the score in the objective is the scaled value
\* with its fraction cut off.
ScoreIsTruncated ==
    \A c \in Calls :
        ModelBuilt(c) =>
            \A k \in 1..Len(self_model.objective) :
                LET t == ScaledTenths(TermOrder(request[c], k), TermChannel(request[c], k),
                                      request[c].weights)
                IN /\ 10 * self_model.objective[k].coef <= t
                   /\ t < 10 * (self_model.objective[k].coef + 1)

-----------------------------------------------------------------------------
\* every channel of the request starts with current_load <= capacity
LoadsStartWithinCapacity(req) ==
    \A j \in 1..Len(req.channels) :
        req.channels[j].current_load <= req.channels[j].capacity

\* the running load the fallback loop holds for the j-th channel after the
\* first n orders
RunningLoad(req, n, j) ==
    FallbackLoop(req.orders, req.channels, n).channel_loads[req.channels[j].id]

\* the n-th order was placed by line 290: no running load moved in the step
PlacedBeyondCapacity(req, n) ==
    FallbackLoop(req.orders, req.channels, n).channel_loads
        = FallbackLoop(req.orders, req.channels, n - 1).channel_loads

\* the number of orders the assignments map asg gives to the channel id cid
Received(asg, cid) == Cardinality({oid \in DOMAIN asg : asg[oid] = cid})

\* the three parts of C12 for a request req answered with the map asg
LoadsWithinCapacity(req, asg) ==
    /\ \A n \in 0..Len(req.orders) : \A j \in 1..Len(req.channels) :
            RunningLoad(req, n, j) <= req.channels[j].capacity
    /\ \A j \in 2..Len(req.channels) :
            req.channels[j].id # req.channels[1].id =>
                Received(asg, req.channels[j].id)
                    <= req.channels[j].capacity - req.channels[j].current_load
    /\ \A n \in 1..Len(req.orders) :
            PlacedBeyondCapacity(req, n) =>
                \A j \in 1..Len(req.channels) :
                    RunningLoad(req, n - 1, j) = req.channels[j].capacity

\* C12 as stated: when every channel starts with current_load <= capacity, then
\* in a FALLBACK Response the running load of every channel was <= its capacity
\* after each order, every channel other than the first of the list received
\* at most capacity - current_load orders, and an order went to the first
\* channel beyond its capacity only at a step where every channel's running
\* load equalled its capacity.
C12_LoadsWithinCapacity ==
    \A c \in Calls :
        (Returned(c) /\ response[c].status = "FALLBACK"
            /\ LoadsStartWithinCapacity(request[c])) =>
            LoadsWithinCapacity(request[c], response[c].assignments)

\* For lists without a repeated channel id the three parts hold.
LoadsWithinCapacityUniqueChannels ==
    \A c \in Calls :
        (Returned(c) /\ response[c].status = "FALLBACK"
            /\ LoadsStartWithinCapacity(request[c])
            /\ UniqueChannelIds(request[c])) =>
            LoadsWithinCapacity(request[c], response[c].assignments)

====
